---- MODULE Spec2Model ----
(***************************************************************************)
(* Versioned metadata cipher of rust-filen (src/src/filen/crypto.rs).      *)
(*                                                                         *)
(* Byte strings are sequences of integers 0..255.  The functions of the    *)
(* crate are operators computed as the code computes them; the external    *)
(* crates it calls (md-5, rust-crypto pbkdf2, aes, block-modes, aes-gcm,   *)
(* base64) are stood for by small deterministic functions that keep the    *)
(* structure the code relies on: block size 16, PKCS7 padding, a 16 byte   *)
(* authentication tag over the ciphertext, the RFC 4648 alphabet.          *)
(***************************************************************************)
EXTENDS Integers, Sequences, FiniteSets, TLC

\* ------------------------------------------------------------------ bounds
MaxLen == 2          \* longest plaintext drawn for encryption
MaxVersion == 3      \* metadata_version is drawn from 0..MaxVersion

\* --------------------------------------------------------------- constants
OPENSSL_SALT_PREFIX == <<83, 97, 108, 116, 101, 100, 95, 95>>          \* "Salted__"
OPENSSL_SALT_PREFIX_BASE64 == <<85, 50, 70, 115, 100, 71, 86, 107>>    \* "U2FsdGVk"
OPENSSL_SALT_LENGTH == 8
FILEN_VERSION_LENGTH == 3
AES_GCM_IV_LENGTH == 12
BlockSize == 16      \* AES block, MD5 digest
TagSize == 16        \* AES-GCM authentication tag

\* ------------------------------------------------------------ byte helpers
Byte == 0..255

Take(s, n) == SubSeq(s, 1, n)

Drop(s, n) == SubSeq(s, n + 1, Len(s))

Pow2(i) == <<1, 2, 4, 8, 16, 32, 64, 128>>[i + 1]

Bit(x, i) == (x \div Pow2(i)) % 2

Xor(a, b) ==
    ((Bit(a, 0) + Bit(b, 0)) % 2)
  + ((Bit(a, 1) + Bit(b, 1)) % 2) * 2
  + ((Bit(a, 2) + Bit(b, 2)) % 2) * 4
  + ((Bit(a, 3) + Bit(b, 3)) % 2) * 8
  + ((Bit(a, 4) + Bit(b, 4)) % 2) * 16
  + ((Bit(a, 5) + Bit(b, 5)) % 2) * 32
  + ((Bit(a, 6) + Bit(b, 6)) % 2) * 64
  + ((Bit(a, 7) + Bit(b, 7)) % 2) * 128

XorSeq(a, b) == [i \in 1..Len(a) |-> Xor(a[i], b[i])]

RECURSIVE FoldRange(_, _, _, _)
\* a running digest state over a byte string: bytes lo..hi of s absorbed in
\* order into h
FoldRange(s, lo, hi, h) ==
    IF lo > hi THEN h
    ELSE IF lo = hi THEN (h * 33 + s[lo] + 1) % 65521
    ELSE LET mid == (lo + hi) \div 2
             left == FoldRange(s, lo, mid, h)
         IN  IF left >= 0 THEN FoldRange(s, mid + 1, hi, left) ELSE left

Fold(s, h) == FoldRange(s, 1, Len(s), h)

\* ------------------------------------------------------------- Result<T>
\* anyhow::Result: Ok(value), Err(message) or a panic of the thread.  `ran`
\* records which cipher primitive the call reached.
Ok(v, r) == [kind |-> "Ok", val |-> v, msg |-> "", ran |-> r]

Err(m, r) == [kind |-> "Err", val |-> <<>>, msg |-> m, ran |-> r]

Panic == [kind |-> "Panic", val |-> <<>>, msg |-> "", ran |-> "none"]

E_SaltTooSmall == "Encrypted data is too small to contain OpenSSL-compatible salt"
E_CbcFailed == "Prefixed AES cannot decipher data"
E_GcmFailed == "Prefixed AES GCM cannot decipher data"
E_IvTooSmall == "Encrypted data is too small to contain AES GCM IV"
E_NotBase64 == "Encrypted data is not contained within base64"
E_Base64Encoded == "Given data should not be base64-encoded"
E_InvalidVersion == "Invalid metadata version"
E_Unsupported == "Unsupported metadata version"

\* ---------------------------------------------------------------- base64
B64Char(v) ==
    IF v < 26 THEN 65 + v
    ELSE IF v < 52 THEN 97 + (v - 26)
    ELSE IF v < 62 THEN 48 + (v - 52)
    ELSE IF v = 62 THEN 43 ELSE 47

\* the 6-bit value of a symbol, -1 for a byte outside the alphabet
B64Val(c) ==
    IF c >= 65 /\ c <= 90 THEN c - 65
    ELSE IF c >= 97 /\ c <= 122 THEN c - 97 + 26
    ELSE IF c >= 48 /\ c <= 57 THEN c - 48 + 52
    ELSE IF c = 43 THEN 62
    ELSE IF c = 47 THEN 63
    ELSE -1

PAD_BYTE == 61

RECURSIVE Base64Encode(_)
Base64Encode(s) ==
    IF Len(s) = 0 THEN <<>>
    ELSE IF Len(s) = 1 THEN
        << B64Char(s[1] \div 4), B64Char((s[1] % 4) * 16), PAD_BYTE, PAD_BYTE >>
    ELSE IF Len(s) = 2 THEN
        << B64Char(s[1] \div 4),
           B64Char((s[1] % 4) * 16 + (s[2] \div 16)),
           B64Char((s[2] % 16) * 4), PAD_BYTE >>
    ELSE
        << B64Char(s[1] \div 4),
           B64Char((s[1] % 4) * 16 + (s[2] \div 16)),
           B64Char((s[2] % 16) * 4 + (s[3] \div 64)),
           B64Char(s[3] % 64) >> \o Base64Encode(Drop(s, 3))

RECURSIVE StripPad(_)
StripPad(s) ==
    IF s # <<>> /\ s[Len(s)] = PAD_BYTE THEN StripPad(Take(s, Len(s) - 1)) ELSE s

RECURSIVE B64Body(_)
\* the bytes of a run of symbols; a last group of 2 or 3 symbols gives 1 or 2
B64Body(v) ==
    IF Len(v) < 2 THEN <<>>
    ELSE IF Len(v) = 2 THEN << v[1] * 4 + (v[2] \div 16) >>
    ELSE IF Len(v) = 3 THEN
        << v[1] * 4 + (v[2] \div 16), (v[2] % 16) * 16 + (v[3] \div 4) >>
    ELSE
        << v[1] * 4 + (v[2] \div 16),
           (v[2] % 16) * 16 + (v[3] \div 4),
           (v[3] % 4) * 64 + v[4] >> \o B64Body(Drop(v, 4))

\* base64::decode with the STANDARD config: padding may be absent but when
\* present must close the last quad; a symbol outside the alphabet, a length
\* of 1 mod 4 and non-zero trailing bits are errors.
Base64Decode(s) ==
    LET body == StripPad(s)
        pads == Len(s) - Len(body)
        vals == [i \in 1..Len(body) |-> B64Val(body[i])]
        rem  == Len(body) % 4
        lastv == vals[Len(body)]
    IN  IF \E i \in 1..Len(body) : vals[i] = -1 THEN [ok |-> FALSE, val |-> <<>>]
        ELSE IF Len(s) % 4 = 1 \/ rem = 1 THEN [ok |-> FALSE, val |-> <<>>]
        ELSE IF pads > 0 /\ ~(rem = 2 /\ pads <= 2) /\ ~(rem = 3 /\ pads = 1)
             THEN [ok |-> FALSE, val |-> <<>>]
        ELSE IF rem = 2 /\ lastv % 16 # 0 THEN [ok |-> FALSE, val |-> <<>>]
        ELSE IF rem = 3 /\ lastv % 4 # 0 THEN [ok |-> FALSE, val |-> <<>>]
        ELSE [ok |-> TRUE, val |-> B64Body(vals)]

\* --------------------------------------------------- external primitives
\* Md5: a 16 byte digest of a byte string
Md5(s) ==
    LET h == Fold(s, 5381)
    IN  [i \in 1..BlockSize |-> ((h + i * i * 7 + 13) * (2 * i + 1)) % 256]

\* pbkdf2(Hmac<Sha512>(password), salt, iterations, out): byte i of the
\* output does not depend on the length asked for
Pbkdf2(password, salt, iterations, outLen) ==
    LET hp == Fold(password, 17)
        hs == Fold(salt, 4099)
    IN  [i \in 1..outLen |->
            (hp * 7 + hs * 13 + (iterations % 65521) * 17 + i * i * 3 + i) % 256]

\* one AES-256 block under a 32 byte key, and its inverse
Aes256EncryptBlock(key, b) ==
    [i \in 1..BlockSize |->
        (b[(i % BlockSize) + 1] + key[i] + 2 * key[i + BlockSize] + i) % 256]

Aes256DecryptBlock(key, c) ==
    [j \in 1..BlockSize |->
        LET i == ((j - 2) % BlockSize) + 1
        IN  (c[i] - key[i] - 2 * key[i + BlockSize] - i) % 256]

\* Pkcs7Pad adding nothing to data that already fills its blocks
Pkcs7Pad_to_multiple(data) ==
    LET n == (BlockSize - (Len(data) % BlockSize)) % BlockSize
    IN  data \o [i \in 1..n |-> n]

\* Pkcs7 padding (block-padding): always adds 1..16 bytes
Pkcs7Pad(data) ==
    LET n == BlockSize - (Len(data) % BlockSize)
    IN  data \o [i \in 1..n |-> n]

Pkcs7Unpad(data) ==
    IF data = <<>> THEN [ok |-> FALSE, val |-> <<>>]
    ELSE LET l == Len(data)
             n == data[l]
         IN  IF n = 0 \/ n > l THEN [ok |-> FALSE, val |-> <<>>]
             ELSE IF \E i \in (l - n + 1)..(l - 1) : data[i] # n
                  THEN [ok |-> FALSE, val |-> <<>>]
             ELSE [ok |-> TRUE, val |-> Take(data, l - n)]

RECURSIVE CbcEncryptBlocks(_, _, _)
CbcEncryptBlocks(key, prev, padded) ==
    IF padded = <<>> THEN <<>>
    ELSE LET c == Aes256EncryptBlock(key, XorSeq(Take(padded, BlockSize), prev))
         IN  c \o CbcEncryptBlocks(key, c, Drop(padded, BlockSize))

RECURSIVE CbcDecryptBlocks(_, _, _)
CbcDecryptBlocks(key, prev, ct) ==
    IF ct = <<>> THEN <<>>
    ELSE LET c == Take(ct, BlockSize)
         IN  XorSeq(Aes256DecryptBlock(key, c), prev)
                 \o CbcDecryptBlocks(key, c, Drop(ct, BlockSize))

\* Cbc<Aes256, Pkcs7>::encrypt_vec
CbcEncryptVec(key, iv, data) == CbcEncryptBlocks(key, iv, Pkcs7Pad(data))

\* Cbc<Aes256, Pkcs7>::decrypt_vec: fails on a length that is no multiple of
\* the block size and on bad padding, with the same BlockModeError
CbcDecryptVec(key, iv, ct) ==
    IF Len(ct) % BlockSize # 0 THEN [ok |-> FALSE, val |-> <<>>]
    ELSE Pkcs7Unpad(CbcDecryptBlocks(key, iv, ct))

\* AES-GCM: a key stream from (key, nonce) xored on the data, followed by a
\* 16 byte tag computed from key, nonce and the whole ciphertext
GcmKeyStream(key, nonce, n) ==
    LET hk == Fold(key, 7)
        hn == Fold(nonce, 11)
    IN  [i \in 1..n |-> (hk + hn * 3 + i * 29) % 256]

RECURSIVE ClassSum(_, _)
ClassSum(ct, i) == IF i > Len(ct) THEN 0 ELSE ct[i] + ClassSum(ct, i + TagSize - 1)

GcmTag(key, nonce, ct) ==
    LET hk == Fold(key, 23)
        hn == Fold(nonce, 29)
    IN  [j \in 1..TagSize |->
            IF j < TagSize
            THEN (hk * j + hn + j * j + ClassSum(ct, j)) % 256
            ELSE (hk + hn * 5 + Len(ct)) % 256]

\* Aes256Gcm::encrypt(nonce, data) = ciphertext followed by the tag
GcmEncrypt(key, nonce, data) ==
    LET ct == XorSeq(data, GcmKeyStream(key, nonce, Len(data)))
    IN  ct \o GcmTag(key, nonce, ct)

\* Aes256Gcm::decrypt(nonce, data): verifies the tag, then decrypts
GcmDecrypt(key, nonce, data) ==
    IF Len(data) < TagSize THEN [ok |-> FALSE, val |-> <<>>]
    ELSE LET ct == Take(data, Len(data) - TagSize)
             tag == Drop(data, Len(data) - TagSize)
         IN  IF tag # GcmTag(key, nonce, ct) THEN [ok |-> FALSE, val |-> <<>>]
             ELSE [ok |-> TRUE, val |-> XorSeq(ct, GcmKeyStream(key, nonce, Len(ct)))]

\* Option<&[u8]>
None == [some |-> FALSE, val |-> <<>>]

Some(v) == [some |-> TRUE, val |-> v]

\* ------------------------------------------------------ key derivation
\* derive_key_from_password_generic replacing a count of 1 as well
derive_key_from_password_generic_above_one(password, salt, iterations, outLen) ==
    LET iterations_or_default == IF iterations <= 1 THEN 200000 ELSE iterations
    IN  Pbkdf2(password, salt, iterations_or_default, outLen)

derive_key_from_password_generic(password, salt, iterations, outLen) ==
    LET iterations_or_default == IF iterations <= 0 THEN 200000 ELSE iterations
    IN  Pbkdf2(password, salt, iterations_or_default, outLen)

\* derive_key_from_password_512 filling a 32 byte buffer
derive_key_from_password_512_half(password, salt, iterations) ==
    derive_key_from_password_generic(password, salt, iterations, 32)

derive_key_from_password_512(password, salt, iterations) ==
    derive_key_from_password_generic(password, salt, iterations, 64)

\* derive_key_from_password_256 keying the MAC with the salt
derive_key_from_password_256_salt_as_key(password, salt, iterations) ==
    derive_key_from_password_generic(salt, password, iterations, 32)

derive_key_from_password_256(password, salt, iterations) ==
    derive_key_from_password_generic(password, salt, iterations, 32)

RECURSIVE Rehash(_, _)
Rehash(block, n) == IF n <= 0 THEN block ELSE Rehash(Md5(block), n - 1)

RECURSIVE EvpkdfLoop(_, _, _, _, _, _)
EvpkdfLoop(pass, salt, count, outLen, derived_key, block) ==
    IF Len(derived_key) >= outLen THEN derived_key
    ELSE LET first == Md5(block \o pass \o salt)
             next == IF count > 1 THEN Rehash(first, count - 1) ELSE first
         IN  EvpkdfLoop(pass, salt, count, outLen, derived_key \o next, next)

\* evpkdf hashing each block once more when the count is 0
evpkdf_zero_rehashes(pass, salt, count, outLen) ==
    Take(EvpkdfLoop(pass, salt, IF count = 0 THEN 2 ELSE count, outLen, <<>>, <<>>), outLen)

evpkdf(pass, salt, count, outLen) ==
    Take(EvpkdfLoop(pass, salt, count, outLen, <<>>, <<>>), outLen)

\* generate_aes_key_and_iv taking the IV from the front of the output
generate_aes_key_and_iv_iv_first(key_length, iv_length, iterations, maybe_salt, password) ==
    LET salt == IF maybe_salt.some THEN maybe_salt.val ELSE <<>>
        output == evpkdf(password, salt, iterations, key_length + iv_length)
    IN  [key |-> Drop(output, iv_length), iv |-> Take(output, iv_length)]

generate_aes_key_and_iv(key_length, iv_length, iterations, maybe_salt, password) ==
    LET salt == IF maybe_salt.some THEN maybe_salt.val ELSE <<>>
        output == evpkdf(password, salt, iterations, key_length + iv_length)
    IN  [key |-> Take(output, key_length), iv |-> Drop(output, key_length)]

\* ------------------------------------------------- AES-256-CBC, version 1
\* `rnd` is the 8 bytes rand::thread_rng() would fill the salt with
\* encrypt_aes_openssl drawing the salt whatever the caller supplies
encrypt_aes_openssl_drawn_salt(data, password, maybe_salt, rnd) ==
    LET salt == rnd
        ki == generate_aes_key_and_iv(32, 16, 1, Some(salt), password)
        encrypted == CbcEncryptVec(ki.key, ki.iv, data)
    IN  OPENSSL_SALT_PREFIX \o salt \o encrypted

\* encrypt_aes_openssl using a supplied salt of any length
encrypt_aes_openssl_any_salt(data, password, maybe_salt, rnd) ==
    LET salt == IF maybe_salt.some THEN maybe_salt.val ELSE rnd
        ki == generate_aes_key_and_iv(32, 16, 1, Some(salt), password)
        encrypted == CbcEncryptVec(ki.key, ki.iv, data)
    IN  OPENSSL_SALT_PREFIX \o salt \o encrypted

encrypt_aes_openssl(data, password, maybe_salt, rnd) ==
    LET salt == IF maybe_salt.some /\ Len(maybe_salt.val) = OPENSSL_SALT_LENGTH
                THEN maybe_salt.val
                ELSE rnd
        ki == generate_aes_key_and_iv(32, 16, 1, Some(salt), password)
        encrypted == CbcEncryptVec(ki.key, ki.iv, data)
    IN  OPENSSL_SALT_PREFIX \o salt \o encrypted

\* decrypt_aes_openssl reading the salt from the first 8 bytes of the blob
decrypt_aes_openssl_prefix_as_salt(data, password) ==
    LET message_index == Len(OPENSSL_SALT_PREFIX) + OPENSSL_SALT_LENGTH
    IN  IF Len(data) < message_index THEN Err(E_SaltTooSmall, "none")
        ELSE LET salt_with_prefix == Take(data, message_index)
                 message == Drop(data, message_index)
                 salt == Take(salt_with_prefix, Len(OPENSSL_SALT_PREFIX))
                 ki == generate_aes_key_and_iv(32, 16, 1, Some(salt), password)
                 decrypted_data == CbcDecryptVec(ki.key, ki.iv, message)
             IN  IF decrypted_data.ok THEN Ok(decrypted_data.val, "cbc")
                 ELSE Err(E_CbcFailed, "cbc")

\* decrypt_aes_openssl telling a bad ciphertext length from bad padding
decrypt_aes_openssl_two_errors(data, password) ==
    LET message_index == Len(OPENSSL_SALT_PREFIX) + OPENSSL_SALT_LENGTH
    IN  IF Len(data) < message_index THEN Err(E_SaltTooSmall, "none")
        ELSE LET salt_with_prefix == Take(data, message_index)
                 message == Drop(data, message_index)
                 salt == Drop(salt_with_prefix, Len(OPENSSL_SALT_PREFIX))
                 ki == generate_aes_key_and_iv(32, 16, 1, Some(salt), password)
                 decrypted_data == CbcDecryptVec(ki.key, ki.iv, message)
             IN  IF decrypted_data.ok THEN Ok(decrypted_data.val, "cbc")
                 ELSE IF Len(message) % BlockSize # 0 THEN Err(E_SaltTooSmall, "cbc")
                 ELSE Err(E_CbcFailed, "cbc")

decrypt_aes_openssl(data, password) ==
    LET message_index == Len(OPENSSL_SALT_PREFIX) + OPENSSL_SALT_LENGTH
    IN  IF Len(data) < message_index THEN Err(E_SaltTooSmall, "none")
        ELSE LET salt_with_prefix == Take(data, message_index)
                 message == Drop(data, message_index)
                 salt == Drop(salt_with_prefix, Len(OPENSSL_SALT_PREFIX))
                 ki == generate_aes_key_and_iv(32, 16, 1, Some(salt), password)
                 decrypted_data == CbcDecryptVec(ki.key, ki.iv, message)
             IN  IF decrypted_data.ok THEN Ok(decrypted_data.val, "cbc")
                 ELSE Err(E_CbcFailed, "cbc")

\* ------------------------------------------------- AES-256-GCM, version 2
\* `iv` is the string utils::random_alpha_string(AES_GCM_IV_LENGTH) returns
\* encrypt_aes_gcm putting the nonce after the base64 text
encrypt_aes_gcm_nonce_last(data, password, iv) ==
    LET key == derive_key_from_password_256(password, password, 1)
        encrypted == GcmEncrypt(key, iv, data)
    IN  Ok(Base64Encode(encrypted) \o iv, "gcm")

encrypt_aes_gcm(data, password, iv) ==
    LET key == derive_key_from_password_256(password, password, 1)
        encrypted == GcmEncrypt(key, iv, data)
    IN  Ok(iv \o Base64Encode(encrypted), "gcm")

\* decrypt_aes_gcm deriving the key with an empty salt
decrypt_aes_gcm_empty_salt(data, password) ==
    IF Len(data) <= AES_GCM_IV_LENGTH THEN Err(E_IvTooSmall, "none")
    ELSE LET iv == Take(data, AES_GCM_IV_LENGTH)
             encrypted_base64 == Drop(data, AES_GCM_IV_LENGTH)
             encrypted == Base64Decode(encrypted_base64)
         IN  IF ~encrypted.ok THEN Err(E_NotBase64, "none")
             ELSE LET key == derive_key_from_password_256(password, <<>>, 1)
                      decrypted_data == GcmDecrypt(key, iv, encrypted.val)
                  IN  IF decrypted_data.ok THEN Ok(decrypted_data.val, "gcm")
                      ELSE Err(E_GcmFailed, "gcm")

\* decrypt_aes_gcm dropping the tag without checking it
decrypt_aes_gcm_unchecked_tag(data, password) ==
    IF Len(data) <= AES_GCM_IV_LENGTH THEN Err(E_IvTooSmall, "none")
    ELSE LET iv == Take(data, AES_GCM_IV_LENGTH)
             encrypted_base64 == Drop(data, AES_GCM_IV_LENGTH)
             encrypted == Base64Decode(encrypted_base64)
         IN  IF ~encrypted.ok THEN Err(E_NotBase64, "none")
             ELSE LET key == derive_key_from_password_256(password, password, 1)
                      n == Len(encrypted.val) - TagSize
                  IN  IF n < 0 THEN Err(E_GcmFailed, "gcm")
                      ELSE Ok(XorSeq(Take(encrypted.val, n), GcmKeyStream(key, iv, n)), "gcm")

decrypt_aes_gcm(data, password) ==
    IF Len(data) <= AES_GCM_IV_LENGTH THEN Err(E_IvTooSmall, "none")
    ELSE LET iv == Take(data, AES_GCM_IV_LENGTH)
             encrypted_base64 == Drop(data, AES_GCM_IV_LENGTH)
             encrypted == Base64Decode(encrypted_base64)
         IN  IF ~encrypted.ok THEN Err(E_NotBase64, "none")
             ELSE LET key == derive_key_from_password_256(password, password, 1)
                      decrypted_data == GcmDecrypt(key, iv, encrypted.val)
                  IN  IF decrypted_data.ok THEN Ok(decrypted_data.val, "gcm")
                      ELSE Err(E_GcmFailed, "gcm")

\* ------------------------------------------------------ metadata cipher
RECURSIVE Decimal(_)
Decimal(n) == IF n < 10 THEN <<48 + n>> ELSE Decimal(n \div 10) \o <<48 + (n % 10)>>

\* format!("{:0>2}", n)
FormatVersion_width2(n) ==
    LET d == Decimal(n)
    IN  IF Len(d) >= 2 THEN d ELSE [i \in 1..(2 - Len(d)) |-> 48] \o d

\* format!("{:0>3}", n)
FormatVersion(n) ==
    LET d == Decimal(n)
    IN  IF Len(d) >= 3 THEN d ELSE [i \in 1..(3 - Len(d)) |-> 48] \o d

\* encrypt_metadata with version 1 as the default arm of the match
encrypt_metadata_default_v1(data, hashed_m_key, metadata_version, rnd, iv) ==
    IF metadata_version = 2
    THEN LET version_mark == FormatVersion(metadata_version)
             gcm == encrypt_aes_gcm(data, hashed_m_key, iv)
         IN  IF gcm.kind = "Ok" THEN Ok(version_mark \o gcm.val, "gcm") ELSE gcm
    ELSE Ok(encrypt_aes_openssl(data, hashed_m_key, None, rnd), "cbc")

encrypt_metadata(data, hashed_m_key, metadata_version, rnd, iv) ==
    IF metadata_version = 1
    THEN Ok(encrypt_aes_openssl(data, hashed_m_key, None, rnd), "cbc")
    ELSE IF metadata_version = 2
    THEN LET version_mark == FormatVersion(metadata_version)
             gcm == encrypt_aes_gcm(data, hashed_m_key, iv)
         IN  IF gcm.kind = "Ok" THEN Ok(version_mark \o gcm.val, "gcm") ELSE gcm
    ELSE Err(E_Unsupported, "none")

IsDigit(c) == c >= 48 /\ c <= 57

RECURSIVE DigitsValue(_, _)
DigitsValue(s, acc) ==
    IF s = <<>> THEN acc ELSE DigitsValue(Tail(s), acc * 10 + (Head(s) - 48))

\* String::from_utf8_lossy(bytes).parse::<i32>(): an optional sign followed
\* by at least one ASCII digit and nothing else
ParseI32(src) ==
    IF src = <<>> THEN [ok |-> FALSE, val |-> 0]
    ELSE LET signed == src[1] = 43 \/ src[1] = 45
             digits == IF signed THEN Tail(src) ELSE src
         IN  IF digits = <<>> \/ \E i \in 1..Len(digits) : ~IsDigit(digits[i])
             THEN [ok |-> FALSE, val |-> 0]
             ELSE [ok |-> TRUE,
                   val |-> IF src[1] = 45 THEN 0 - DigitsValue(digits, 0)
                           ELSE DigitsValue(digits, 0)]

\* slicing &data[..8] panics on a shorter input
read_metadata_version(data) ==
    IF Len(data) < Len(OPENSSL_SALT_PREFIX) THEN [kind |-> "Panic", msg |-> "", version |-> 0]
    ELSE LET possible_salted_mark == Take(data, Len(OPENSSL_SALT_PREFIX))
             possible_version_mark == Take(data, FILEN_VERSION_LENGTH)
         IN  IF possible_salted_mark = OPENSSL_SALT_PREFIX
             THEN [kind |-> "Ok", msg |-> "", version |-> 1]
             ELSE IF possible_salted_mark = OPENSSL_SALT_PREFIX_BASE64
             THEN [kind |-> "Err", msg |-> E_Base64Encoded, version |-> 0]
             ELSE LET parsed == ParseI32(possible_version_mark)
                  IN  IF parsed.ok
                      THEN [kind |-> "Ok", msg |-> "", version |-> parsed.val]
                      ELSE [kind |-> "Err", msg |-> E_InvalidVersion, version |-> 0]

decrypt_metadata(data, hashed_m_key) ==
    LET metadata_version == read_metadata_version(data)
    IN  IF metadata_version.kind = "Panic" THEN Panic
        ELSE IF metadata_version.kind = "Err" THEN Err(metadata_version.msg, "none")
        ELSE IF metadata_version.version = 1
        THEN decrypt_aes_openssl(data, hashed_m_key)
        ELSE IF metadata_version.version = 2
        THEN decrypt_aes_gcm(Drop(data, FILEN_VERSION_LENGTH), hashed_m_key)
        ELSE Err(E_Unsupported, "none")

\* ------------------------------------------------------ hashes and hex
\* a digest of `n` bytes; each algorithm has its own initial state
Digest(s, seed, n) ==
    LET h == Fold(s, seed)
    IN  [i \in 1..n |-> ((h + i * i * 7 + 13) * (2 * i + 1)) % 256]

md2(s) == Digest(s, 211, 16)

md4(s) == Digest(s, 433, 16)

md5(s) == Md5(s)

sha1(s) == Digest(s, 1009, 20)

sha256(s) == Digest(s, 2503, 32)

sha384(s) == Digest(s, 3821, 48)

sha512(s) == Digest(s, 5119, 64)

HexDigit(v) == IF v < 10 THEN 48 + v ELSE 97 + (v - 10)

\* Hash::to_hex_string: two lower-case hex digits for each byte
to_hex_string(s) ==
    [i \in 1..(2 * Len(s)) |->
        IF i % 2 = 1 THEN HexDigit(s[(i + 1) \div 2] \div 16)
        ELSE HexDigit(s[i \div 2] % 16)]

\* utils::byte_slice_to_hex_string
byte_slice_to_hex_string(s) == to_hex_string(s)

REPLACEMENT_CHARACTER == <<239, 191, 189>>     \* U+FFFD in UTF-8

IsContinuation(b) == b >= 128 /\ b <= 191

RECURSIVE from_utf8_lossy(_)
\* String::from_utf8_lossy on ASCII, two-byte sequences and stray bytes (the
\* bytes drawn for passwords): a byte that starts no valid sequence becomes
\* U+FFFD
from_utf8_lossy(s) ==
    IF s = <<>> THEN <<>>
    ELSE IF Head(s) < 128 THEN <<Head(s)>> \o from_utf8_lossy(Tail(s))
    ELSE IF Head(s) >= 194 /\ Head(s) <= 223 /\ Len(s) >= 2 /\ IsContinuation(s[2])
    THEN <<s[1], s[2]>> \o from_utf8_lossy(Drop(s, 2))
    ELSE REPLACEMENT_CHARACTER \o from_utf8_lossy(Tail(s))

hash_fn(value) == to_hex_string(sha1(to_hex_string(sha512(value))))

\* hash_password joining the two digests before the hex encoding
hash_password_swapped(password) ==
    LET sha512_part_1 ==
            to_hex_string(sha512(to_hex_string(md5(to_hex_string(md4(
                to_hex_string(md2(password))))))))
        sha512_part_2 ==
            to_hex_string(sha512(to_hex_string(sha384(to_hex_string(sha256(
                to_hex_string(sha1(password))))))))
    IN  sha512_part_1 \o sha512_part_2

hash_password(password) ==
    LET sha512_part_1 ==
            to_hex_string(sha512(to_hex_string(sha384(to_hex_string(sha256(
                to_hex_string(sha1(password))))))))
        sha512_part_2 ==
            to_hex_string(sha512(to_hex_string(md5(to_hex_string(md4(
                to_hex_string(md2(password))))))))
    IN  sha512_part_1 \o sha512_part_2

\* ------------------------------------------- SentPasswordWithMasterKey
Credential(m, sp) == [kind |-> "Ok", m_key |-> m, sent_password |-> sp, msg |-> ""]

NoCredential(m) == [kind |-> "Err", m_key |-> <<>>, sent_password |-> <<>>, msg |-> m]

E_DerivedKeyLength == "Derived key should be 64 bytes long"

from_password(password) ==
    LET m_key == hash_fn(from_utf8_lossy(password))
        sent_password == hash_password(from_utf8_lossy(password))
    IN  Credential(m_key, sent_password)

\* from_derived_key hashing the raw second half
from_derived_key_raw_half(derived_key) ==
    IF Len(derived_key) # 64 THEN NoCredential(E_DerivedKeyLength)
    ELSE LET m_key == Take(derived_key, Len(derived_key) \div 2)
             password_part == Drop(derived_key, Len(derived_key) \div 2)
             sent_password == sha512(password_part)
         IN  Credential(m_key, sent_password)

from_derived_key(derived_key) ==
    IF Len(derived_key) # 64 THEN NoCredential(E_DerivedKeyLength)
    ELSE LET m_key == Take(derived_key, Len(derived_key) \div 2)
             password_part == Drop(derived_key, Len(derived_key) \div 2)
             sent_password == sha512(byte_slice_to_hex_string(password_part))
         IN  Credential(m_key, sent_password)

from_password_and_salt(password, salt) ==
    LET pbkdf2_hash == derive_key_from_password_512(password, salt, 200000)
    IN  from_derived_key(pbkdf2_hash)

m_key_as_hex_string(self) == byte_slice_to_hex_string(self.m_key)

sent_password_as_hex_string(self) == byte_slice_to_hex_string(self.sent_password)

\* -------------------------------------------- structured metadata decoders
RECURSIVE SplitFrom(_, _, _, _)
\* the segments of s from index i on, `cur` being the segment under way
SplitFrom(s, d, i, cur) ==
    IF i > Len(s) THEN <<cur>>
    ELSE IF s[i] = d THEN <<cur>> \o SplitFrom(s, d, i + 1, <<>>)
    ELSE SplitFrom(s, d, i + 1, Append(cur, s[i]))

\* str::split: the segments between the delimiters, empty ones included
Split(s, d) == SplitFrom(s, d, 1, <<>>)

PIPE == 124        \* '|'

E_Base64 == "Cannot decode base64 private key"

KeysOk(keys) == [kind |-> "Ok", keys |-> keys, msg |-> ""]

KeysErr(decrypted) == [kind |-> decrypted.kind, keys |-> <<>>, msg |-> decrypted.msg]

BytesOk(bytes) == [kind |-> "Ok", bytes |-> bytes, msg |-> ""]

BytesErr(kind, msg) == [kind |-> kind, bytes |-> <<>>, msg |-> msg]

\* decrypt_master_keys_metadata splitting on every byte
decrypt_master_keys_metadata_by_byte(master_keys_metadata, last_master_key) ==
    IF ~master_keys_metadata.some \/ master_keys_metadata.val = <<>> THEN KeysOk(<<>>)
    ELSE LET decrypted == decrypt_metadata(master_keys_metadata.val, last_master_key)
         IN  IF decrypted.kind = "Ok"
             THEN KeysOk([i \in 1..Len(decrypted.val) |-> <<decrypted.val[i]>>])
             ELSE KeysErr(decrypted)

decrypt_master_keys_metadata(master_keys_metadata, last_master_key) ==
    IF ~master_keys_metadata.some \/ master_keys_metadata.val = <<>> THEN KeysOk(<<>>)
    ELSE LET decrypted == decrypt_metadata(master_keys_metadata.val, last_master_key)
         IN  IF decrypted.kind = "Ok" THEN KeysOk(Split(decrypted.val, PIPE))
             ELSE KeysErr(decrypted)

decrypt_private_key_metadata(private_key_metadata, last_master_key) ==
    IF ~private_key_metadata.some THEN BytesOk(<<>>)
    ELSE LET decrypted == decrypt_metadata(private_key_metadata.val, last_master_key)
         IN  IF decrypted.kind = "Ok"
             THEN LET decoded == Base64Decode(decrypted.val)
                  IN  IF decoded.ok THEN BytesOk(decoded.val)
                      ELSE BytesErr("Err", E_Base64)
             ELSE BytesErr(decrypted.kind, decrypted.msg)

\* LoginResponseData::decrypt_master_keys
decrypt_master_keys(self, last_master_key) ==
    decrypt_master_keys_metadata(self.master_keys_metadata, last_master_key)

\* LoginResponseData::decrypt_private_key
decrypt_private_key(self, last_master_key) ==
    decrypt_private_key_metadata(self.private_key_metadata, last_master_key)

\* ------------------------------------------------------- link passwords
\* encrypt_to_link_password_and_salt hashing the second half of the key only
encrypt_to_link_password_and_salt_split(password, rnd) ==
    LET salt == rnd
        derived_key == derive_key_from_password_512(password, salt, 200000)
        password_hashed == to_hex_string(sha512(to_hex_string(Drop(derived_key, 32))))
    IN  [password_hashed |-> password_hashed, salt |-> to_hex_string(salt)]

\* `rnd` is the 32 bytes the random source gives for the salt
encrypt_to_link_password_and_salt(password, rnd) ==
    LET salt == rnd
        derived_key == derive_key_from_password_512(password, salt, 200000)
        password_hashed == to_hex_string(sha512(to_hex_string(derived_key)))
    IN  [password_hashed |-> password_hashed, salt |-> to_hex_string(salt)]

\* PasswordState::Empty.to_string()
EMPTY_PASSWORD_VALUE == <<101, 109, 112, 116, 121>>          \* "empty"

SEC_EMPTY_PASSWORD_VALUE == EMPTY_PASSWORD_VALUE

EMPTY_PASSWORD_HASH == hash_fn(EMPTY_PASSWORD_VALUE)

\* crypto::encrypt_metadata_str(..).unwrap(): a failure panics
encrypt_metadata_str_unwrap(data, key, metadata_version, rnd, iv) ==
    LET r == encrypt_metadata(data, key, metadata_version, rnd, iv)
    IN  IF r.kind = "Ok" THEN r.val ELSE <<>>

\* DirLinkAddRequestPayload::new; `link_key` and `link_uuid` are what the
\* random sources give, `rnd` and `iv` what the encryption draws
DirLinkAddRequestPayload_new(api_key, linked_item_uuid, linked_item_metadata, linked_item_parent_uuid, link_type, last_master_key, metadata_version, link_key, link_uuid, rnd, iv) ==
    LET key_metadata ==
            encrypt_metadata_str_unwrap(link_key, last_master_key, metadata_version, rnd, iv)
    IN  [struct |-> "DirLinkAddRequestPayload",
         api_key |-> api_key,
         download_btn |-> "enable",
         expiration |-> "never",
         key_metadata |-> key_metadata,
         link_uuid |-> link_uuid,
         metadata |-> linked_item_metadata,
         parent |-> linked_item_parent_uuid,
         password |-> "Empty",
         password_hashed |-> EMPTY_PASSWORD_HASH,
         link_type |-> link_type,
         uuid |-> linked_item_uuid]

\* DirLinkEditRequestPayload::new
DirLinkEditRequestPayload_new(api_key, download_btn, item_uuid, expiration, link_plain_password, rnd) ==
    LET hash_and_salt ==
            IF link_plain_password.some
            THEN encrypt_to_link_password_and_salt(link_plain_password.val, rnd)
            ELSE encrypt_to_link_password_and_salt(SEC_EMPTY_PASSWORD_VALUE, rnd)
    IN  [struct |-> "DirLinkEditRequestPayload",
         api_key |-> api_key,
         download_btn |-> download_btn,
         expiration |-> expiration,
         password |-> IF link_plain_password.some THEN "NotEmpty" ELSE "Empty",
         password_hashed |-> hash_and_salt.password_hashed,
         salt |-> hash_and_salt.salt,
         uuid |-> item_uuid]

\* ------------------------------------------------------------ formatting
\* what secstr's Debug writes for a SecStr or a SecUtf8
SECRET == "***SECRET***"

\* derive(Debug) of SentPasswordWithMasterKey: each field through its Debug
Debug_SentPasswordWithMasterKey(value) ==
    [struct |-> "SentPasswordWithMasterKey", m_key |-> SECRET, sent_password |-> SECRET]

\* derive(Debug) of DirLinkAddRequestPayload: each field through its Debug
Debug_DirLinkAddRequestPayload(value) ==
    [value EXCEPT !.api_key = SECRET]

\* display_from_json!: Display writes serde_json::json!(self), the object
\* derive(Serialize) sends to the server: every field under its serde name
\* with its content, the enum variants in lowercase
Display_DirLinkAddRequestPayload(value) ==
    [apiKey |-> value.api_key,
     downloadBtn |-> value.download_btn,
     expiration |-> value.expiration,
     key |-> value.key_metadata,
     linkUUID |-> value.link_uuid,
     metadata |-> value.metadata,
     parent |-> value.parent,
     password |-> IF value.password = "Empty" THEN "empty" ELSE "notempty",
     passwordHashed |-> value.password_hashed,
     type |-> value.link_type,
     uuid |-> value.uuid]

\* ------------------------------------------------------------- inputs
PlainBytes == {123, 255}

RECURSIVE SeqsUpTo(_, _)
SeqsUpTo(S, n) ==
    IF n = 0 THEN {<<>>}
    ELSE LET shorter == SeqsUpTo(S, n - 1)
         IN  shorter \cup {Append(q, b) : q \in {r \in shorter : Len(r) = n - 1}, b \in S}

\* plaintexts just below, at and just above one cipher block
BlockPlaintexts == { [i \in 1..n |-> 123] : n \in {15, 16, 17} }

Plaintexts == SeqsUpTo(PlainBytes, MaxLen) \cup BlockPlaintexts

Keys == { <<>>, <<116, 101, 115, 116>> }                     \* "", "test"

Versions == 0..MaxVersion

\* what thread_rng() may fill the 8 byte salt with
RandomSalts == { <<0, 1, 2, 3, 4, 5, 6, 7>>, <<255, 255, 255, 255, 255, 255, 255, 255>> }

\* what utils::random_alpha_string(12) may return: 12 ASCII letters and digits
RandomAlphaStrings ==
    { <<78, 54, 119, 102, 85, 85, 74, 110, 106, 57, 113, 51>>,  \* "N6wfUUJnj9q3"
      <<48, 48, 50, 65, 65, 65, 65, 65, 65, 65, 65, 65>> }      \* "002AAAAAAAAA"

\* salts a caller of encrypt_aes_openssl may pass
SuppliedSalts ==
    { None, Some(<<>>), Some(<<9, 9, 9>>), Some(<<8, 7, 6, 5, 4, 3, 2, 1>>) }

SamplePlain == <<123, 255>>

SampleKey == <<116, 101, 115, 116>>

SampleSalt == <<0, 1, 2, 3, 4, 5, 6, 7>>

SampleIv == <<78, 54, 119, 102, 85, 85, 74, 110, 106, 57, 113, 51>>

\* leading bytes of blobs handed to decrypt_metadata by a caller
Markers ==
    { <<>>,
      OPENSSL_SALT_PREFIX,
      OPENSSL_SALT_PREFIX_BASE64,
      <<48, 48, 49>>,      \* "001"
      <<48, 48, 50>>,      \* "002"
      <<48, 48, 51>>,      \* "003"
      <<48, 48, 48>>,      \* "000"
      <<43, 48, 49>>,      \* "+01"
      <<43, 48, 50>>,      \* "+02"
      <<45, 48, 49>>,      \* "-01"
      <<97, 98, 99>>,      \* "abc"
      <<49, 97, 50>>,      \* "1a2"
      <<32, 48, 50>>,      \* " 02"
      <<255, 48, 50>> }    \* not UTF-8

\* what follows the marker
Bodies ==
    { <<>>,
      <<65, 65>>,
      <<65, 65, 65, 65, 65>>,
      SampleIv,
      SampleIv \o <<65>>,
      SampleIv \o <<65, 65, 65, 65>>,
      SampleIv \o <<65, 42, 65, 65>>,
      Drop(encrypt_aes_openssl(SamplePlain, SampleKey, None, SampleSalt), 3),
      Drop(encrypt_aes_openssl(SamplePlain, SampleKey, None, SampleSalt), 8),
      Drop(encrypt_metadata(SamplePlain, SampleKey, 2, SampleSalt, SampleIv).val, 3) }

SuppliedBlobs == { m \o b : m \in Markers, b \in Bodies }

\* passwords a caller may hand to the credential constructors
Passwords ==
    { <<>>,
      <<112, 119>>,        \* "pw"
      <<195, 169>>,        \* "e" with an acute accent, two bytes of UTF-8
      <<255>>,             \* not UTF-8
      <<112, 255>> }       \* "p" and a byte that is not UTF-8

CredentialSalts == { <<>>, <<115, 97, 108, 116>> }           \* "", "salt"

DerivedKeyLengths == {0, 32, 63, 64, 65}

\* keys a caller inside the module may hand to from_derived_key
DerivedKeys ==
    { Pbkdf2(<<112, 119>>, <<>>, 200000, n) : n \in DerivedKeyLengths }
        \cup { [i \in 1..64 |-> 0], [i \in 1..64 |-> (i * 37) % 256] }

IterationCounts == {0, 1, 2, 200000}

EvpkdfCounts == {0, 1, 2, 3}

EvpkdfSalts == { None, Some(<<>>), Some(SampleSalt) }

\* plaintexts of the masterKeys field: keys joined by '|'
MasterKeysPlaintexts ==
    { <<>>,
      <<97>>,                        \* "a"
      <<97, 124, 98>>,               \* "a|b"
      <<97, 124, 98, 124, 99>>,      \* "a|b|c"
      <<98, 124, 97>>,               \* "b|a"
      <<124>>,                       \* "|"
      <<97, 124, 124, 98>> }         \* "a||b"

\* plaintexts of the privateKey field: base64 text, or not
PrivateKeyPlaintexts ==
    { <<>>,
      Base64Encode(<<48, 130, 9>>),
      Base64Encode(<<48, 130>>),
      <<42, 42>>,                    \* "**"
      <<65>> }                       \* "A"

MetadataOf(pt, v) == encrypt_metadata(pt, SampleKey, v, SampleSalt, SampleIv).val

\* fields the server may send that no encryption made
ForeignFields ==
    { Some(<<97, 98, 99>>),                                  \* "abc"
      Some(<<48, 48, 51>> \o SampleIv),                      \* "003..."
      Some(OPENSSL_SALT_PREFIX_BASE64 \o <<65, 65, 65, 65>>) }

MasterKeysFields ==
    {None, Some(<<>>)} \cup ForeignFields
        \cup { Some(MetadataOf(pt, v)) : pt \in MasterKeysPlaintexts, v \in {1, 2} }

PrivateKeyFields ==
    {None} \cup ForeignFields
        \cup { Some(MetadataOf(pt, v)) : pt \in PrivateKeyPlaintexts, v \in {1, 2} }

\* what the random source may give for the 32 byte salt of a link
RandomLinkSalts == { [i \in 1..32 |-> i], [i \in 1..32 |-> 255 - i] }

LinkPasswords == { <<>>, <<112, 119>>, EMPTY_PASSWORD_VALUE }     \* "", "pw", "empty"

ApiKeys == { "api-key-1", "api-key-2" }

Uuids == { "uuid-1", "uuid-2" }

\* what utils::random_alphanumeric_string(32) may return for the link key
RandomLinkKeys == { [i \in 1..32 |-> 65], [i \in 1..32 |-> 48 + (i % 10)] }

Threads == {1, 2}

IdleThread ==
    LET none == [fn |-> "none", data |-> <<>>, key |-> <<>>, version |-> 0,
                 rnd |-> <<>>, iv |-> <<>>]
    IN  [pc |-> "idle", inputs |-> none, snapshot |-> none,
         result |-> [kind |-> "None"], concurrent |-> FALSE]

\* the calls a thread may make: the function, its arguments, and what its
\* own random source will give
ThreadCalls ==
    { [fn |-> "encrypt_metadata", data |-> <<123>>, key |-> k, version |-> v,
       rnd |-> d[1], iv |-> d[2]] :
          k \in Keys, v \in {1, 2},
          d \in { <<SampleSalt, SampleIv>>,
                  <<<<255, 255, 255, 255, 255, 255, 255, 255>>,
                    <<48, 48, 50, 65, 65, 65, 65, 65, 65, 65, 65, 65>>>> } }
    \cup
    { [fn |-> "decrypt_metadata", data |-> b, key |-> k, version |-> 0,
       rnd |-> <<>>, iv |-> <<>>] :
          b \in { MetadataOf(SamplePlain, 1), MetadataOf(SamplePlain, 2),
                  <<48, 48, 51>> \o SampleIv },
          k \in Keys }
    \cup
    { [fn |-> "from_password", data |-> p, key |-> <<>>, version |-> 0,
       rnd |-> <<>>, iv |-> <<>>] : p \in { <<112, 119>>, <<255>> } }
    \cup
    { [fn |-> "from_password_and_salt", data |-> p, key |-> <<115, 97, 108, 116>>,
       version |-> 0, rnd |-> <<>>, iv |-> <<>>] : p \in { <<>>, <<112, 119>> } }

\* what the call returns when nothing else runs
RunAlone(c) ==
    CASE c.fn = "encrypt_metadata" -> encrypt_metadata(c.data, c.key, c.version, c.rnd, c.iv)
      [] c.fn = "decrypt_metadata" -> decrypt_metadata(c.data, c.key)
      [] c.fn = "from_password" -> from_password(c.data)
      [] c.fn = "from_password_and_salt" -> from_password_and_salt(c.data, c.key)
      [] OTHER -> [kind |-> "None"]

\* lengths of the buffer evpkdf fills: none, part of a digest, whole digests
EvpkdfOutputLengths == {0, 1, 16, 17, 32, 48}

\* (key_length, iv_length) asked of generate_aes_key_and_iv
KeyIvLengths == { <<32, 16>>, <<0, 0>>, <<1, 16>>, <<16, 0>> }

FlipBit(s, i, b) ==
    [s EXCEPT ![i] = IF Bit(s[i], b) = 1 THEN s[i] - Pow2(b) ELSE s[i] + Pow2(b)]

NoResult == [kind |-> "None", val |-> <<>>, msg |-> "", ran |-> "none"]

\* -------------------------------------------------------------- state
VARIABLES
    op,         \* the call made last
    origin,        \* where the held blob came from
    plain,      \* data given to the last encryption
    key,        \* key given to the last encryption
    version,    \* metadata_version given to the last encrypt_metadata
    encRes,     \* what the last encryption returned
    blob,       \* the encrypted bytes the caller holds
    altered,    \* "no", or how the held bytes were changed since encryption
    at,         \* index of the changed byte, or the length kept
    decKey,     \* key given to the last decryption
    decRes,     \* what the last decryption returned
    args,       \* the other arguments of the last call
    ret,        \* what the last call outside the blob's life returned
    hex,        \* what the last hex accessor returned
    threads     \* the call each thread is in: its inputs and its result

vars == <<op, origin, plain, key, version, encRes, blob, altered, at, decKey, decRes,
          args, ret, hex, threads>>

NoArgs == [none |-> TRUE]

NoReturn == [kind |-> "None"]

Init ==
    /\ op = "init"
    /\ origin = "none"
    /\ plain = <<>>
    /\ key = <<>>
    /\ version = 0
    /\ encRes = NoResult
    /\ blob = <<>>
    /\ altered = "no"
    /\ at = 0
    /\ decKey = <<>>
    /\ decRes = NoResult
    /\ args = NoArgs
    /\ ret = NoReturn
    /\ hex = <<>>
    /\ threads = [t \in Threads |-> IdleThread]

\* every call is independent of the calls before it: one run of the model
\* follows one blob from its creation to its decryption
Fresh == op = "init"

\* a caller encrypts metadata and keeps the blob when there is one
EncryptMetadata ==
    /\ Fresh
    /\ \E p \in Plaintexts, k \in Keys, v \in Versions,
          rnd \in RandomSalts, iv \in RandomAlphaStrings :
          LET r == encrypt_metadata(p, k, v, rnd, iv)
          IN  /\ op' = "encrypt_metadata"
              /\ origin' = "encrypt_metadata"
              /\ plain' = p
              /\ key' = k
              /\ version' = v
              /\ encRes' = r
              /\ blob' = r.val
    /\ altered' = "no"
    /\ at' = 0
    /\ decKey' = <<>>
    /\ decRes' = NoResult
    /\ args' = NoArgs
    /\ ret' = NoReturn
    /\ hex' = <<>>
    /\ UNCHANGED threads

EncryptAesOpenssl ==
    /\ Fresh
    /\ \E p \in Plaintexts, k \in Keys, ms \in SuppliedSalts, rnd \in RandomSalts :
          LET r == encrypt_aes_openssl(p, k, ms, rnd)
          IN  /\ op' = "encrypt_aes_openssl"
              /\ origin' = "encrypt_aes_openssl"
              /\ plain' = p
              /\ key' = k
              /\ encRes' = Ok(r, "cbc")
              /\ blob' = r
              /\ args' = [maybe_salt |-> ms]
    /\ version' = 1
    /\ altered' = "no"
    /\ at' = 0
    /\ decKey' = <<>>
    /\ decRes' = NoResult
    /\ ret' = NoReturn
    /\ hex' = <<>>
    /\ UNCHANGED threads

\* a blob arrives from elsewhere
SupplyBlob ==
    /\ Fresh
    /\ \E b \in SuppliedBlobs : blob' = b
    /\ op' = "supply"
    /\ origin' = "supply"
    /\ plain' = <<>>
    /\ key' = <<>>
    /\ version' = 0
    /\ encRes' = NoResult
    /\ altered' = "no"
    /\ at' = 0
    /\ decKey' = <<>>
    /\ decRes' = NoResult
    /\ args' = NoArgs
    /\ ret' = NoReturn
    /\ hex' = <<>>
    /\ UNCHANGED threads

\* one bit of the stored blob changes
Tamper ==
    /\ op = "encrypt_metadata"
    /\ encRes.kind = "Ok"
    /\ \E i \in 1..Len(blob), b \in 0..7 :
          /\ blob' = FlipBit(blob, i, b)
          /\ at' = i
    /\ op' = "tamper"
    /\ altered' = "bit"
    /\ UNCHANGED <<origin, plain, key, version, encRes, decKey, decRes, args, ret, hex, threads>>

\* the stored blob is cut short
Truncate ==
    /\ op \in {"encrypt_metadata", "encrypt_aes_openssl"}
    /\ encRes.kind = "Ok"
    /\ \E n \in 0..(Len(blob) - 1) :
          /\ blob' = Take(blob, n)
          /\ at' = n
    /\ op' = "truncate"
    /\ altered' = "cut"
    /\ UNCHANGED <<origin, plain, key, version, encRes, decKey, decRes, args, ret, hex, threads>>

HoldsBlob ==
    \/ op \in {"supply", "tamper", "truncate"}
    \/ op \in {"encrypt_metadata", "encrypt_aes_openssl"} /\ encRes.kind = "Ok"

DecryptMetadata ==
    /\ HoldsBlob
    /\ \E k \in Keys :
          /\ decKey' = k
          /\ decRes' = decrypt_metadata(blob, k)
    /\ op' = "decrypt_metadata"
    /\ UNCHANGED <<origin, plain, key, version, encRes, blob, altered, at, args, ret, hex, threads>>

DecryptAesOpenssl ==
    /\ HoldsBlob
    /\ op # "tamper"
    /\ \E k \in Keys :
          /\ decKey' = k
          /\ decRes' = decrypt_aes_openssl(blob, k)
    /\ op' = "decrypt_aes_openssl"
    /\ UNCHANGED <<origin, plain, key, version, encRes, blob, altered, at, args, ret, hex, threads>>

\* what a call that makes no blob leaves alone
BlobVars == <<plain, key, version, encRes, blob, altered, at, decKey, decRes>>

FromDerivedKey ==
    /\ Fresh
    /\ \E d \in DerivedKeys :
          /\ args' = [derived_key |-> d]
          /\ ret' = from_derived_key(d)
    /\ op' = "from_derived_key"
    /\ origin' = "from_derived_key"
    /\ UNCHANGED <<BlobVars, hex, threads>>

FromPasswordAndSalt ==
    /\ Fresh
    /\ \E p \in Passwords, s \in CredentialSalts :
          /\ args' = [password |-> p, salt |-> s]
          /\ ret' = from_password_and_salt(p, s)
    /\ op' = "from_password_and_salt"
    /\ origin' = "from_password_and_salt"
    /\ UNCHANGED <<BlobVars, hex, threads>>

FromPassword ==
    /\ Fresh
    /\ \E p \in Passwords :
          /\ args' = [password |-> p]
          /\ ret' = from_password(p)
    /\ op' = "from_password"
    /\ origin' = "from_password"
    /\ UNCHANGED <<BlobVars, hex, threads>>

HoldsCredential ==
    /\ op \in {"from_derived_key", "from_password_and_salt", "from_password"}
    /\ ret.kind = "Ok"

MKeyAsHexString ==
    /\ HoldsCredential
    /\ hex' = m_key_as_hex_string(ret)
    /\ op' = "m_key_as_hex_string"
    /\ UNCHANGED <<BlobVars, origin, args, ret, threads>>

SentPasswordAsHexString ==
    /\ HoldsCredential
    /\ hex' = sent_password_as_hex_string(ret)
    /\ op' = "sent_password_as_hex_string"
    /\ UNCHANGED <<BlobVars, origin, args, ret, threads>>

DeriveKeyFromPassword512 ==
    /\ Fresh
    /\ \E p \in Passwords, s \in CredentialSalts, n \in IterationCounts :
          /\ args' = [password |-> p, salt |-> s, iterations |-> n]
          /\ ret' = [bytes |-> derive_key_from_password_512(p, s, n)]
    /\ op' = "derive_key_from_password_512"
    /\ UNCHANGED <<BlobVars, origin, hex, threads>>

DeriveKeyFromPassword256 ==
    /\ Fresh
    /\ \E p \in Passwords, s \in CredentialSalts, n \in IterationCounts :
          /\ args' = [password |-> p, salt |-> s, iterations |-> n]
          /\ ret' = [bytes |-> derive_key_from_password_256(p, s, n)]
    /\ op' = "derive_key_from_password_256"
    /\ UNCHANGED <<BlobVars, origin, hex, threads>>

GenerateAesKeyAndIv ==
    /\ Fresh
    /\ \E p \in Keys, ms \in EvpkdfSalts, n \in EvpkdfCounts, l \in KeyIvLengths :
          /\ args' = [password |-> p, maybe_salt |-> ms, iterations |-> n,
                      key_length |-> l[1], iv_length |-> l[2]]
          /\ ret' = generate_aes_key_and_iv(l[1], l[2], n, ms, p)
    /\ op' = "generate_aes_key_and_iv"
    /\ UNCHANGED <<BlobVars, origin, hex, threads>>

\* a caller inside the module encrypts without the version marker
EncryptAesGcm ==
    /\ Fresh
    /\ \E p \in Plaintexts, k \in Keys, iv \in RandomAlphaStrings :
          LET r == encrypt_aes_gcm(p, k, iv)
          IN  /\ plain' = p
              /\ key' = k
              /\ encRes' = r
              /\ blob' = r.val
              /\ args' = [iv |-> iv]
    /\ op' = "encrypt_aes_gcm"
    /\ origin' = "encrypt_aes_gcm"
    /\ UNCHANGED <<version, altered, at, decKey, decRes, ret, hex, threads>>

DecryptMasterKeys ==
    /\ Fresh
    /\ \E f \in MasterKeysFields, pk \in {None}, k \in Keys :
          LET self == [master_keys_metadata |-> f, private_key_metadata |-> pk]
          IN  /\ args' = [self |-> self, last_master_key |-> k]
              /\ ret' = decrypt_master_keys(self, k)
    /\ op' = "decrypt_master_keys"
    /\ UNCHANGED <<BlobVars, origin, hex, threads>>

DecryptPrivateKey ==
    /\ Fresh
    /\ \E f \in PrivateKeyFields, mk \in {None, Some(<<>>)}, k \in Keys :
          LET self == [master_keys_metadata |-> mk, private_key_metadata |-> f]
          IN  /\ args' = [self |-> self, last_master_key |-> k]
              /\ ret' = decrypt_private_key(self, k)
    /\ op' = "decrypt_private_key"
    /\ UNCHANGED <<BlobVars, origin, hex, threads>>

EncryptToLinkPasswordAndSalt ==
    /\ Fresh
    /\ \E p \in LinkPasswords, rnd \in RandomLinkSalts :
          /\ args' = [password |-> p]
          /\ ret' = encrypt_to_link_password_and_salt(p, rnd)
    /\ op' = "encrypt_to_link_password_and_salt"
    /\ UNCHANGED <<BlobVars, origin, hex, threads>>

NewDirLinkAddRequestPayload ==
    /\ Fresh
    /\ \E api_key \in ApiKeys, item \in Uuids, k \in Keys, v \in {1, 2},
          link_key \in RandomLinkKeys, link_uuid \in Uuids,
          rnd \in RandomSalts, iv \in RandomAlphaStrings :
          /\ args' = [api_key |-> api_key, last_master_key |-> k]
          /\ ret' = DirLinkAddRequestPayload_new(api_key, item, "metadata", "base",
                        "folder", k, v, link_key, link_uuid, rnd, iv)
    /\ op' = "DirLinkAddRequestPayload::new"
    /\ UNCHANGED <<BlobVars, origin, hex, threads>>

NewDirLinkEditRequestPayload ==
    /\ Fresh
    /\ \E api_key \in ApiKeys, btn \in {"enable", "disable"}, item \in Uuids,
          pw \in {None} \cup {Some(p) : p \in LinkPasswords}, rnd \in RandomLinkSalts :
          /\ args' = [api_key |-> api_key, link_plain_password |-> pw]
          /\ ret' = DirLinkEditRequestPayload_new(api_key, btn, item, "never", pw, rnd)
    /\ op' = "DirLinkEditRequestPayload::new"
    /\ UNCHANGED <<BlobVars, origin, hex, threads>>

\* --------------------------------------------------- calls from threads
\* thread t enters a function of the module with its own arguments
Call(t) ==
    /\ threads[t].pc = "idle"
    /\ \E c \in ThreadCalls :
          threads' = [threads EXCEPT ![t] =
              [pc |-> "running", inputs |-> c, snapshot |-> c,
               result |-> [kind |-> "None"], concurrent |-> FALSE]]
    /\ UNCHANGED <<op, origin, BlobVars, args, ret, hex>>

\* Return handing thread t what a call running in another thread computes
Return_any_frame(t) ==
    /\ threads[t].pc = "running"
    /\ \E u \in Threads :
          /\ threads[u].pc = "running"
          /\ threads' = [threads EXCEPT ![t] =
                 [@ EXCEPT !.pc = "done",
                           !.result = RunAlone(threads[u].inputs),
                           !.concurrent = \E v \in Threads \ {t} : threads[v].pc = "running"]]
    /\ UNCHANGED <<op, origin, BlobVars, args, ret, hex>>

\* the function computes from the arguments of its own frame and returns
Return(t) ==
    /\ threads[t].pc = "running"
    /\ threads' = [threads EXCEPT ![t] =
           [@ EXCEPT !.pc = "done",
                     !.result = RunAlone(threads[t].inputs),
                     !.concurrent = \E u \in Threads \ {t} : threads[u].pc = "running"]]
    /\ UNCHANGED <<op, origin, BlobVars, args, ret, hex>>

\* the caller is done with the result
Forget(t) ==
    /\ threads[t].pc = "done"
    /\ threads' = [threads EXCEPT ![t] = IdleThread]
    /\ UNCHANGED <<op, origin, BlobVars, args, ret, hex>>

NextThreads == \E t \in Threads : Call(t) \/ Return(t) \/ Forget(t)

SpecThreads == Init /\ [][NextThreads]_vars

\* two credentials differing in their secret buffers, each written with {:?}
FormatSentPasswordWithMasterKey ==
    /\ Fresh
    /\ \E p \in Passwords, q \in Passwords :
          /\ from_password(p) # from_password(q)
          /\ from_password(p).kind = "Ok"
          /\ from_password(q).kind = "Ok"
          /\ args' = [password |-> p, other_password |-> q]
          /\ ret' = [debug_a |-> Debug_SentPasswordWithMasterKey(from_password(p)),
                     debug_b |-> Debug_SentPasswordWithMasterKey(from_password(q))]
    /\ op' = "fmt SentPasswordWithMasterKey"
    /\ UNCHANGED <<BlobVars, origin, hex, threads>>

\* two payloads differing in api_key only, each written with {:?} and {}
FormatDirLinkAddRequestPayload ==
    /\ Fresh
    /\ \E api_key \in ApiKeys, other_api_key \in ApiKeys, item \in Uuids, k \in Keys,
          v \in {1, 2}, link_key \in RandomLinkKeys :
          LET a == DirLinkAddRequestPayload_new(api_key, item, "metadata", "base",
                       "folder", k, v, link_key, item, SampleSalt, SampleIv)
              b == [a EXCEPT !.api_key = other_api_key]
          IN  /\ api_key # other_api_key
              /\ args' = [api_key |-> api_key, other_api_key |-> other_api_key,
                          last_master_key |-> k]
              /\ ret' = [debug_a |-> Debug_DirLinkAddRequestPayload(a),
                         debug_b |-> Debug_DirLinkAddRequestPayload(b),
                         display_a |-> Display_DirLinkAddRequestPayload(a),
                         display_b |-> Display_DirLinkAddRequestPayload(b)]
    /\ op' = "fmt DirLinkAddRequestPayload"
    /\ UNCHANGED <<BlobVars, origin, hex, threads>>

Evpkdf ==
    /\ Fresh
    /\ \E p \in Keys, s \in {<<>>, SampleSalt}, n \in EvpkdfCounts,
          l \in EvpkdfOutputLengths :
          /\ args' = [password |-> p, salt |-> s, iterations |-> n, output_length |-> l]
          /\ ret' = [bytes |-> evpkdf(p, s, n, l),
                     derived_key |-> EvpkdfLoop(p, s, n, l, <<>>, <<>>)]
    /\ op' = "evpkdf"
    /\ UNCHANGED <<BlobVars, origin, hex, threads>>

Next ==
    \/ EncryptMetadata
    \/ EncryptAesOpenssl
    \/ SupplyBlob
    \/ Tamper
    \/ Truncate
    \/ DecryptMetadata
    \/ DecryptAesOpenssl
    \/ FromDerivedKey
    \/ FromPasswordAndSalt
    \/ FromPassword
    \/ MKeyAsHexString
    \/ SentPasswordAsHexString
    \/ DeriveKeyFromPassword512
    \/ DeriveKeyFromPassword256
    \/ GenerateAesKeyAndIv
    \/ EncryptAesGcm
    \/ DecryptMasterKeys
    \/ DecryptPrivateKey
    \/ EncryptToLinkPasswordAndSalt
    \/ NewDirLinkAddRequestPayload
    \/ NewDirLinkEditRequestPayload
    \/ FormatSentPasswordWithMasterKey
    \/ FormatDirLinkAddRequestPayload
    \/ Evpkdf

Spec == Init /\ [][Next]_vars

TypeOK ==
    /\ op \in {"init", "encrypt_metadata", "encrypt_aes_openssl", "supply",
               "tamper", "truncate", "decrypt_metadata", "decrypt_aes_openssl",
               "from_derived_key", "from_password_and_salt", "from_password",
               "m_key_as_hex_string", "sent_password_as_hex_string",
               "derive_key_from_password_512", "derive_key_from_password_256",
               "generate_aes_key_and_iv", "encrypt_aes_gcm",
               "decrypt_master_keys", "decrypt_private_key",
               "evpkdf",
               "fmt SentPasswordWithMasterKey",
               "fmt DirLinkAddRequestPayload",
               "encrypt_to_link_password_and_salt",
               "DirLinkAddRequestPayload::new",
               "DirLinkEditRequestPayload::new"}
    /\ origin \in {"none", "encrypt_metadata", "encrypt_aes_openssl", "supply",
                   "from_derived_key", "from_password_and_salt", "from_password",
                   "encrypt_aes_gcm"}
    /\ \A i \in 1..Len(hex) : hex[i] \in Byte
    /\ encRes.kind \in {"None", "Ok", "Err"}
    /\ decRes.kind \in {"None", "Ok", "Err", "Panic"}
    /\ \A i \in 1..Len(blob) : blob[i] \in Byte

\* ------------------------------------------------------------ properties
StartsWith(s, p) == Len(s) >= Len(p) /\ Take(s, Len(p)) = p

VersionMark2 == <<48, 48, 50>>      \* "002"

\* the blob is decrypted as it was returned, with the key it was made with
RoundTrip(call) ==
    /\ op = call
    /\ encRes.kind = "Ok"
    /\ altered = "no"
    /\ decKey = key

\* C1: a blob returned by encrypt_metadata(p, k, 2) decrypts under k to
\* Ok(p), for every nonce drawn
C1_RoundTripV2 ==
    (RoundTrip("decrypt_metadata") /\ origin = "encrypt_metadata" /\ version = 2)
        => (decRes.kind = "Ok" /\ decRes.val = plain)

C1_Witness ==
    /\ RoundTrip("decrypt_metadata")
    /\ origin = "encrypt_metadata"
    /\ version = 2
    /\ Len(plain) = 2
    /\ key # <<>>
    /\ decRes.kind = "Ok"
    /\ decRes.val = plain

\* C2: a version-1 blob decrypts under the same key to Ok(p): through
\* decrypt_metadata for encrypt_metadata(p, k, 1), and through
\* decrypt_aes_openssl for encrypt_aes_openssl(p, k, salt), whatever salt
\* was drawn or supplied
C2_RoundTripV1 ==
    /\ (RoundTrip("decrypt_metadata") /\ origin = "encrypt_metadata" /\ version = 1)
          => (decRes.kind = "Ok" /\ decRes.val = plain)
    /\ (RoundTrip("decrypt_aes_openssl") /\ origin = "encrypt_aes_openssl")
          => (decRes.kind = "Ok" /\ decRes.val = plain)

C2_Witness ==
    /\ RoundTrip("decrypt_aes_openssl")
    /\ origin = "encrypt_aes_openssl"
    /\ SubSeq(blob, 9, 16) = <<8, 7, 6, 5, 4, 3, 2, 1>>
    /\ Len(plain) = 2
    /\ decRes.kind = "Ok"
    /\ decRes.val = plain

\* C3: decrypt_metadata runs AES-256-CBC only on a blob that starts with
\* "Salted__" and AES-256-GCM only on a blob that starts with "002"
C3_CipherOnlyForMarker ==
    op = "decrypt_metadata" =>
        /\ decRes.ran = "cbc" => StartsWith(blob, OPENSSL_SALT_PREFIX)
        /\ decRes.ran = "gcm" => StartsWith(blob, VersionMark2)

TooShort(b) ==
    \/ Len(b) < Len(OPENSSL_SALT_PREFIX)
    \/ StartsWith(b, OPENSSL_SALT_PREFIX)
          /\ Len(b) < Len(OPENSSL_SALT_PREFIX) + OPENSSL_SALT_LENGTH
    \/ StartsWith(b, VersionMark2)
          /\ Len(b) - FILEN_VERSION_LENGTH <= AES_GCM_IV_LENGTH

\* C4: decrypt_metadata on a blob too short for its prefix, salt or nonce
\* returns Err: it neither panics nor returns Ok
C4_ShortBlobIsErr ==
    (op = "decrypt_metadata" /\ TooShort(blob)) => decRes.kind = "Err"

\* a single bit was changed in the base64 text of a version-2 blob, which
\* is then decrypted under the key it was made with
TamperedV2 ==
    /\ op = "decrypt_metadata"
    /\ origin = "encrypt_metadata"
    /\ version = 2
    /\ altered = "bit"
    /\ at > FILEN_VERSION_LENGTH + AES_GCM_IV_LENGTH
    /\ decKey = key

\* what decrypt_aes_gcm reports when the text is no base64 or the tag check
\* fails
DecryptionFailedV2 == {E_NotBase64, E_GcmFailed}

\* C5: after a single bit of the base64 text of a version-2 blob is changed,
\* decrypt_metadata under the same key returns the decryption error and
\* never Ok
C5_TamperDetected ==
    TamperedV2 => (decRes.kind = "Err" /\ decRes.msg \in DecryptionFailedV2)

C5_Witness ==
    /\ TamperedV2
    /\ Len(plain) = 2
    /\ decRes.kind = "Err"
    /\ decRes.ran = "gcm"
    /\ decRes.msg = E_GcmFailed

\* C6: the output of encrypt_metadata(_, _, 1) begins with "Salted__" and
\* the output of encrypt_metadata(_, _, 2) begins with "002"
C6_VersionMarkers ==
    (op = "encrypt_metadata" /\ encRes.kind = "Ok") =>
        /\ version = 1 => StartsWith(encRes.val, OPENSSL_SALT_PREFIX)
        /\ version = 2 => StartsWith(encRes.val, VersionMark2)

C6_Witness ==
    /\ op = "encrypt_metadata"
    /\ version = 2
    /\ encRes.kind = "Ok"
    /\ Len(plain) = 2
    /\ StartsWith(encRes.val, VersionMark2)
    /\ ~StartsWith(Drop(encRes.val, FILEN_VERSION_LENGTH), VersionMark2)

VersionMarkOf(b) == IF Len(b) >= FILEN_VERSION_LENGTH THEN Take(b, FILEN_VERSION_LENGTH) ELSE b

\* C8: decrypt_metadata on a blob that starts with neither "Salted__" nor
\* "U2FsdGVk" and whose first 3 bytes parse to an integer other than 1 and 2
\* returns the unsupported-version error and runs no cipher
C8_UnsupportedDecryptVersion ==
    ( /\ op = "decrypt_metadata"
      /\ ~StartsWith(blob, OPENSSL_SALT_PREFIX)
      /\ ~StartsWith(blob, OPENSSL_SALT_PREFIX_BASE64)
      /\ ParseI32(VersionMarkOf(blob)).ok
      /\ ParseI32(VersionMarkOf(blob)).val \notin {1, 2} )
        => ( /\ decRes.kind = "Err"
             /\ decRes.msg = E_Unsupported
             /\ decRes.msg # E_InvalidVersion
             /\ decRes.ran = "none" )

\* C9: decrypt_metadata sniffs the version in this order: "Salted__" gives
\* version 1; else "U2FsdGVk" gives the should-not-be-base64 error for every
\* key; else a marker that is no decimal integer gives the invalid-version
\* error; the two errors run no cipher
C9_SniffingOrder ==
    op = "decrypt_metadata" =>
        IF StartsWith(blob, OPENSSL_SALT_PREFIX)
        THEN decRes = decrypt_aes_openssl(blob, decKey)
        ELSE IF StartsWith(blob, OPENSSL_SALT_PREFIX_BASE64)
        THEN decRes = Err(E_Base64Encoded, "none")
        ELSE ~ParseI32(VersionMarkOf(blob)).ok => decRes = Err(E_InvalidVersion, "none")

\* the error of a GCM tag mismatch: a version-2 blob decrypted under a key
\* it was not made with
GcmTagMismatch ==
    decrypt_metadata(encrypt_metadata(SamplePlain, SampleKey, 2, SampleSalt, SampleIv).val, <<>>)

\* a CBC decryption failed on the padding check
CbcPaddingFailure ==
    /\ op = "decrypt_metadata"
    /\ decRes.kind = "Err"
    /\ decRes.ran = "cbc"
    /\ Len(blob) > Len(OPENSSL_SALT_PREFIX) + OPENSSL_SALT_LENGTH
    /\ Len(blob) % BlockSize = 0

\* C10 as claimed: a CBC padding failure is reported with the same error as
\* a GCM tag mismatch
C10_OneOpaqueError ==
    CbcPaddingFailure => decRes.msg = GcmTagMismatch.msg

\* C10 as amended: each cipher reports every decryption failure of its own
\* with one fixed message, "Prefixed AES cannot decipher data" for CBC (bad
\* padding and bad length alike) and "Prefixed AES GCM cannot decipher data"
\* for a GCM tag mismatch
C10_OneErrorPerCipher ==
    /\ GcmTagMismatch = Err(E_GcmFailed, "gcm")
    /\ (op \in {"decrypt_metadata", "decrypt_aes_openssl"} /\ decRes.kind = "Err") =>
          /\ decRes.ran = "cbc" => decRes.msg = E_CbcFailed
          /\ decRes.ran = "gcm" => decRes.msg = E_GcmFailed

C10_Witness ==
    /\ CbcPaddingFailure
    /\ origin = "encrypt_metadata"
    /\ version = 1
    /\ altered = "bit"
    /\ decKey = key
    /\ decRes.msg = E_CbcFailed

\* C11: from_derived_key of a 64-byte key returns the credential whose m_key
\* is the first 32 bytes as they are and whose sent_password is the SHA-512
\* of the lower-case hex encoding of the last 32 bytes; a key of any other
\* length gives the key-length error and no credential
C11_DerivedKeySplit ==
    op = "from_derived_key" =>
        LET d == args.derived_key
        IN  IF Len(d) = 64
            THEN /\ ret.kind = "Ok"
                 /\ ret.m_key = SubSeq(d, 1, 32)
                 /\ ret.sent_password = sha512(to_hex_string(SubSeq(d, 33, 64)))
            ELSE /\ ret.kind = "Err"
                 /\ ret.msg = E_DerivedKeyLength
                 /\ ret.m_key = <<>>
                 /\ ret.sent_password = <<>>

C11_Witness ==
    /\ op = "from_derived_key"
    /\ Len(args.derived_key) = 64
    /\ ret.kind = "Ok"
    /\ Len(ret.m_key) = 32
    /\ Len(ret.sent_password) = 64

C11_WitnessWrongLength ==
    /\ op = "from_derived_key"
    /\ Len(args.derived_key) = 63
    /\ ret.kind = "Err"

\* C12: from_password_and_salt(password, salt) is from_derived_key of the 64
\* bytes PBKDF2 gives for (password, salt, 200000 iterations), and it returns
\* a credential for every password and salt, the empty ones included: the
\* key-length error is never returned
C12_FromPasswordAndSalt ==
    op = "from_password_and_salt" =>
        LET d == Pbkdf2(args.password, args.salt, 200000, 64)
        IN  /\ ret = from_derived_key(d)
            /\ ret.kind = "Ok"
            /\ ret.m_key = SubSeq(d, 1, 32)
            /\ ret.sent_password = sha512(to_hex_string(SubSeq(d, 33, 64)))
            /\ ret.msg # E_DerivedKeyLength

C12_Witness ==
    /\ op = "from_password_and_salt"
    /\ args.password = <<>>
    /\ args.salt = <<>>
    /\ ret.kind = "Ok"
    /\ Len(ret.m_key) = 32

legacyFingerprint(value) == to_hex_string(sha1(to_hex_string(sha512(value))))

chainA(password) ==
    to_hex_string(sha512(to_hex_string(sha384(to_hex_string(sha256(
        to_hex_string(sha1(password))))))))

chainB(password) ==
    to_hex_string(sha512(to_hex_string(md5(to_hex_string(md4(
        to_hex_string(md2(password))))))))

legacyPasswordChain(password) == chainA(password) \o chainB(password)

\* the password is text: its bytes are valid UTF-8
IsUtf8(password) == from_utf8_lossy(password) = password

\* C13 as stated: from_password(p) returns Ok with m_key = legacyFingerprint(p)
\* and sent_password = legacyPasswordChain(p), for every p
C13_LegacyChains ==
    op = "from_password" =>
        /\ ret.kind = "Ok"
        /\ ret.m_key = legacyFingerprint(args.password)
        /\ ret.sent_password = legacyPasswordChain(args.password)

\* C13 amended: from_password(p) always returns Ok; its m_key and
\* sent_password are legacyFingerprint and legacyPasswordChain of the lossy
\* UTF-8 reading of p, which is p itself exactly when p is valid UTF-8; the
\* result depends on p alone
C13_LegacyChainsOverText ==
    op = "from_password" =>
        LET text == from_utf8_lossy(args.password)
        IN  /\ ret.kind = "Ok"
            /\ ret.m_key = legacyFingerprint(text)
            /\ ret.sent_password = legacyPasswordChain(text)
            /\ Len(ret.m_key) = 40
            /\ Len(ret.sent_password) = 256
            /\ IsUtf8(args.password) =>
                   /\ ret.m_key = legacyFingerprint(args.password)
                   /\ ret.sent_password = legacyPasswordChain(args.password)
            /\ ret = from_password(args.password)

C13_Witness ==
    /\ op = "from_password"
    /\ args.password = <<112, 255>>
    /\ ~IsUtf8(args.password)
    /\ ret.kind = "Ok"
    /\ ret.m_key = legacyFingerprint(<<112, 239, 191, 189>>)
    /\ ret.m_key # legacyFingerprint(args.password)

C13_WitnessText ==
    /\ op = "from_password"
    /\ args.password = <<195, 169>>
    /\ IsUtf8(args.password)
    /\ ret.m_key = legacyFingerprint(args.password)

\* C14: the hex accessors of a credential return the master key and the sent
\* password as their hex strings: after from_password(p) they return
\* legacyFingerprint(p) and legacyPasswordChain(p); after
\* from_password_and_salt they return the hex encodings of the 32-byte master
\* key and of the 64-byte SHA-512 value
C14_HexAccessors ==
    /\ (op = "m_key_as_hex_string" /\ origin = "from_password" /\ IsUtf8(args.password))
           => hex = legacyFingerprint(args.password)
    /\ (op = "sent_password_as_hex_string" /\ origin = "from_password"
            /\ IsUtf8(args.password))
           => hex = legacyPasswordChain(args.password)
    /\ (op = "m_key_as_hex_string" /\ origin = "from_password_and_salt")
           => /\ Len(ret.m_key) = 32
              /\ hex = to_hex_string(ret.m_key)
    /\ (op = "sent_password_as_hex_string" /\ origin = "from_password_and_salt")
           => /\ Len(ret.sent_password) = 64
              /\ hex = to_hex_string(ret.sent_password)

\* the part of C14 about from_password_and_salt
C14_HexOfDerivedHalves ==
    /\ (op = "m_key_as_hex_string" /\ origin = "from_password_and_salt")
           => /\ Len(ret.m_key) = 32
              /\ hex = to_hex_string(ret.m_key)
    /\ (op = "sent_password_as_hex_string" /\ origin = "from_password_and_salt")
           => /\ Len(ret.sent_password) = 64
              /\ hex = to_hex_string(ret.sent_password)

\* after from_password the accessors return the hex encoding of the hex
\* string the credential holds
C14_HexOfHex ==
    (op = "m_key_as_hex_string" /\ origin = "from_password")
        => /\ hex = to_hex_string(legacyFingerprint(from_utf8_lossy(args.password)))
           /\ Len(hex) = 80

DerivedLength == IF op = "derive_key_from_password_512" THEN 64 ELSE 32

\* C15: derive_key_from_password_256 and derive_key_from_password_512 with
\* an iteration count of 0 return what 200000 iterations return; every
\* positive count, 1 included, reaches PBKDF2 as it is
C15_IterationDefault ==
    op \in {"derive_key_from_password_512", "derive_key_from_password_256"} =>
        /\ Len(ret.bytes) = DerivedLength
        /\ args.iterations = 0 =>
               ret.bytes = Pbkdf2(args.password, args.salt, 200000, DerivedLength)
        /\ args.iterations > 0 =>
               ret.bytes = Pbkdf2(args.password, args.salt, args.iterations, DerivedLength)

C15_Witness ==
    /\ op = "derive_key_from_password_256"
    /\ args.iterations = 0
    /\ ret.bytes = Pbkdf2(args.password, args.salt, 200000, 32)
    /\ ret.bytes # Pbkdf2(args.password, args.salt, 1, 32)

C15_WitnessOne ==
    /\ op = "derive_key_from_password_512"
    /\ args.iterations = 1
    /\ ret.bytes = Pbkdf2(args.password, args.salt, 1, 64)
    /\ ret.bytes # Pbkdf2(args.password, args.salt, 200000, 64)

SaltOf(maybe_salt) == IF maybe_salt.some THEN maybe_salt.val ELSE <<>>

\* the three digest blocks a 32 byte key and a 16 byte IV need, each the MD5
\* of (password ++ salt ++ previous block) hashed again count - 1 times
ClaimedBlocks(pass, salt, count) ==
    LET d1 == Rehash(Md5(pass \o salt), count - 1)
        d2 == Rehash(Md5(pass \o salt \o d1), count - 1)
        d3 == Rehash(Md5(pass \o salt \o d2), count - 1)
    IN  d1 \o d2 \o d3

\* the same blocks, each the MD5 of (previous block ++ password ++ salt)
OpensslBlocks(pass, salt, count) ==
    LET d1 == Rehash(Md5(pass \o salt), count - 1)
        d2 == Rehash(Md5(d1 \o pass \o salt), count - 1)
        d3 == Rehash(Md5(d2 \o pass \o salt), count - 1)
    IN  d1 \o d2 \o d3

\* C16 as stated: every block is MD5(password ++ salt ++ previousBlock),
\* hashed again iterations - 1 times; the key is the first 32 bytes of the
\* concatenated blocks and the IV the next 16
C16_EvpkdfBlocks ==
    (op = "generate_aes_key_and_iv" /\ args.key_length = 32 /\ args.iv_length = 16) =>
        LET blocks == ClaimedBlocks(args.password, SaltOf(args.maybe_salt), args.iterations)
        IN  /\ ret.key = SubSeq(blocks, 1, 32)
            /\ ret.iv = SubSeq(blocks, 33, 48)

\* C16 amended: every block is MD5(previousBlock ++ password ++ salt), the
\* previous block being empty for the first one, hashed again
\* iterations - 1 times; the key is the first 32 bytes of the concatenated
\* blocks and the IV the next 16
C16_EvpkdfOpensslBlocks ==
    (op = "generate_aes_key_and_iv" /\ args.key_length = 32 /\ args.iv_length = 16) =>
        LET blocks == OpensslBlocks(args.password, SaltOf(args.maybe_salt), args.iterations)
        IN  /\ ret.key = SubSeq(blocks, 1, 32)
            /\ ret.iv = SubSeq(blocks, 33, 48)
            /\ Len(ret.key) = 32
            /\ Len(ret.iv) = 16

C16_Witness ==
    /\ op = "generate_aes_key_and_iv"
    /\ args.password = SampleKey
    /\ args.maybe_salt = Some(SampleSalt)
    /\ args.iterations = 2
    /\ ret.key # SubSeq(ClaimedBlocks(SampleKey, SampleSalt, 2), 1, 32)
    /\ ret.key = SubSeq(OpensslBlocks(SampleKey, SampleSalt, 2), 1, 32)

SuppliedSalt8 ==
    /\ op = "encrypt_aes_openssl"
    /\ args.maybe_salt.some
    /\ Len(args.maybe_salt.val) = 8

\* C17: with an 8-byte salt s supplied, encrypt_aes_openssl(data, password, s)
\* is "Salted__" ++ s ++ the CBC/PKCS7 ciphertext of data under the key and
\* IV derived from (password, s, 1 iteration), whatever the random source
\* holds; decrypt_aes_openssl takes the salt from bytes 8..16 of the blob
\* and the ciphertext from byte 16 on
C17_Version1Layout ==
    /\ SuppliedSalt8 =>
           LET s == args.maybe_salt.val
               ki == generate_aes_key_and_iv(32, 16, 1, Some(s), key)
           IN  /\ blob = OPENSSL_SALT_PREFIX \o s \o CbcEncryptVec(ki.key, ki.iv, plain)
               /\ SubSeq(blob, 1, 8) = <<83, 97, 108, 116, 101, 100, 95, 95>>
               /\ SubSeq(blob, 9, 16) = s
               /\ encRes = Ok(blob, "cbc")
    /\ (op = "decrypt_aes_openssl" /\ Len(blob) >= 16) =>
           LET ki == generate_aes_key_and_iv(32, 16, 1, Some(SubSeq(blob, 9, 16)), decKey)
               d == CbcDecryptVec(ki.key, ki.iv, SubSeq(blob, 17, Len(blob)))
           IN  IF d.ok THEN decRes = Ok(d.val, "cbc") ELSE decRes = Err(E_CbcFailed, "cbc")

C17_Witness ==
    /\ SuppliedSalt8
    /\ plain = SamplePlain
    /\ key = SampleKey
    /\ SubSeq(blob, 9, 16) = <<8, 7, 6, 5, 4, 3, 2, 1>>
    /\ Len(blob) = 32

C17_WitnessDecrypt ==
    /\ op = "decrypt_aes_openssl"
    /\ origin = "encrypt_aes_openssl"
    /\ altered = "no"
    /\ args.maybe_salt = Some(<<8, 7, 6, 5, 4, 3, 2, 1>>)
    /\ decKey = key
    /\ decRes = Ok(plain, "cbc")
    /\ plain = SamplePlain

\* "002" ++ N ++ base64(ciphertext and tag) for the 12 byte nonce N
Version2Blob(data, password, N) ==
    VersionMark2 \o N
        \o Base64Encode(GcmEncrypt(derive_key_from_password_256(password, password, 1), N, data))

MadeVersion2 == op = "encrypt_metadata" /\ version = 2

C18_WitnessMarked ==
    /\ MadeVersion2
    /\ plain = SamplePlain
    /\ blob = Version2Blob(SamplePlain, key, SampleIv)

RECURSIVE JoinFrom(_, _, _)
\* the segments from index i on, joined by the delimiter d
JoinFrom(segments, d, i) ==
    IF i > Len(segments) THEN <<>>
    ELSE IF i = Len(segments) THEN segments[i]
    ELSE segments[i] \o <<d>> \o JoinFrom(segments, d, i + 1)

Occurrences(s, d) == Cardinality({i \in 1..Len(s) : s[i] = d})

MasterKeysField == args.self.master_keys_metadata

PrivateKeyField == args.self.private_key_metadata

C19_WitnessEmpty ==
    /\ op = "decrypt_master_keys"
    /\ MasterKeysField = Some(<<>>)
    /\ ret = KeysOk(<<>>)

\* C20: decrypt_private_key on an absent privateKey field returns empty bytes
\* without error; on a present field it returns the base64 decoding of
\* decrypt_metadata(field, last master key), and an error with no bytes when
\* the decryption or the base64 decoding fails
C20_PrivateKeyBytes ==
    op = "decrypt_private_key" =>
        /\ ~PrivateKeyField.some => ret = BytesOk(<<>>)
        /\ PrivateKeyField.some =>
               LET decrypted == decrypt_metadata(PrivateKeyField.val, args.last_master_key)
                   decoded == Base64Decode(decrypted.val)
               IN  IF decrypted.kind = "Ok" /\ decoded.ok
                   THEN ret = BytesOk(decoded.val)
                   ELSE ret.kind = "Err" /\ ret.bytes = <<>>

\* C20 on the fields long enough for decrypt_metadata to read their marker
C20_PrivateKeyBytesOfLongField ==
    (op = "decrypt_private_key" /\ PrivateKeyField.some /\ Len(PrivateKeyField.val) >= 8) =>
        LET decrypted == decrypt_metadata(PrivateKeyField.val, args.last_master_key)
            decoded == Base64Decode(decrypted.val)
        IN  IF decrypted.kind = "Ok" /\ decoded.ok
            THEN ret = BytesOk(decoded.val)
            ELSE ret.kind = "Err" /\ ret.bytes = <<>>

C20_ReachedDecoded ==
    /\ op = "decrypt_private_key"
    /\ PrivateKeyField = Some(MetadataOf(Base64Encode(<<48, 130>>), 1))
    /\ ret = BytesOk(<<48, 130>>)

C20_ReachedBadBase64 ==
    /\ op = "decrypt_private_key"
    /\ PrivateKeyField = Some(MetadataOf(<<42, 42>>, 2))
    /\ args.last_master_key = SampleKey
    /\ ret.kind = "Err"
    /\ ret.msg = E_Base64

\* the link hash of a password under the 32 salt bytes r: SHA-512 hex of the
\* hex encoding of the whole 64 byte PBKDF2 output
LinkHash(password, r) ==
    to_hex_string(sha512(to_hex_string(Pbkdf2(password, r, 200000, 64))))

BuiltWithoutPassword ==
    \/ op = "DirLinkAddRequestPayload::new"
    \/ op = "DirLinkEditRequestPayload::new" /\ ~args.link_plain_password.some

BuiltWithPassword ==
    op = "DirLinkEditRequestPayload::new" /\ args.link_plain_password.some

\* C22: every link request payload built without a user password has
\* password = Empty and password_hashed = legacyFingerprint("empty"), the
\* same for all of them; the password state is NotEmpty exactly when a plain
\* password was supplied
C22_NoPasswordPlaceholder ==
    /\ BuiltWithoutPassword =>
           /\ ret.password = "Empty"
           /\ ret.password_hashed = legacyFingerprint(EMPTY_PASSWORD_VALUE)
    /\ BuiltWithPassword => ret.password = "NotEmpty"

\* what holds of the two constructors: the payload of
\* DirLinkAddRequestPayload::new carries Empty and legacyFingerprint("empty");
\* the payload of DirLinkEditRequestPayload::new without a password carries
\* Empty and the link hash of "empty" under the salt it returns
C22_PlaceholderOfAddOnly ==
    /\ op = "DirLinkAddRequestPayload::new" =>
           /\ ret.password = "Empty"
           /\ ret.password_hashed = legacyFingerprint(EMPTY_PASSWORD_VALUE)
    /\ (op = "DirLinkEditRequestPayload::new" /\ ~args.link_plain_password.some) =>
           /\ ret.password = "Empty"
           /\ \E r \in RandomLinkSalts :
                  /\ ret.salt = to_hex_string(r)
                  /\ ret.password_hashed = LinkHash(EMPTY_PASSWORD_VALUE, r)
           /\ ret.password_hashed # legacyFingerprint(EMPTY_PASSWORD_VALUE)
    /\ BuiltWithPassword =>
           /\ ret.password = "NotEmpty"
           /\ \E r \in RandomLinkSalts :
                  /\ ret.salt = to_hex_string(r)
                  /\ ret.password_hashed = LinkHash(args.link_plain_password.val, r)

C22_ReachedEditWithoutPassword ==
    /\ op = "DirLinkEditRequestPayload::new"
    /\ ~args.link_plain_password.some
    /\ ret.password = "Empty"
    /\ Len(ret.password_hashed) = 128

C24_SecretsNotRendered ==
    /\ op \in {"fmt SentPasswordWithMasterKey", "fmt DirLinkAddRequestPayload"} =>
           ret.debug_a = ret.debug_b
    /\ op = "fmt DirLinkAddRequestPayload" => ret.display_a = ret.display_b

\* the Debug half alone
C24_DebugHidesSecrets ==
    op \in {"fmt SentPasswordWithMasterKey", "fmt DirLinkAddRequestPayload"} =>
        ret.debug_a = ret.debug_b

C24_ReachedBothFormats ==
    \/ op = "fmt SentPasswordWithMasterKey" /\ args.password # args.other_password
    \/ op = "fmt DirLinkAddRequestPayload" /\ ret.display_a.apiKey # ret.display_b.apiKey

CeilDiv(a, b) == (a + b - 1) \div b

\* C26: for an n-byte plaintext, version 1 of encrypt_metadata returns
\* 16 + 16 * (floor(n / 16) + 1) bytes, version 2 returns
\* 3 + 12 + 4 * ceil((n + 16) / 3) bytes, and encrypt_aes_gcm alone returns
\* 12 + 4 * ceil((n + 16) / 3) bytes
C26_CiphertextLengths ==
    LET n == Len(plain)
    IN  /\ origin = "encrypt_metadata" /\ version = 1 =>
               /\ encRes.kind = "Ok"
               /\ Len(encRes.val) = 16 + 16 * ((n \div 16) + 1)
        /\ origin = "encrypt_metadata" /\ version = 2 =>
               /\ encRes.kind = "Ok"
               /\ Len(encRes.val) = 3 + 12 + 4 * CeilDiv(n + 16, 3)
        /\ origin = "encrypt_aes_gcm" =>
               /\ encRes.kind = "Ok"
               /\ Len(encRes.val) = 12 + 4 * CeilDiv(n + 16, 3)

C26_Witness ==
    /\ op = "encrypt_metadata"
    /\ version = 1
    /\ Len(plain) = 16
    /\ Len(blob) = 48

\* C27: derive_key_from_password_256(p, s, n) is the first 32 bytes of
\* derive_key_from_password_512(p, s, n), so the m_key of
\* from_password_and_salt(p, s) is derive_key_from_password_256(p, s, 200000)
C27_Key256IsPrefixOf512 ==
    /\ op = "derive_key_from_password_256" =>
           /\ Len(ret.bytes) = 32
           /\ ret.bytes = SubSeq(derive_key_from_password_512(
                                     args.password, args.salt, args.iterations), 1, 32)
    /\ op = "derive_key_from_password_512" =>
           SubSeq(ret.bytes, 1, 32) =
               derive_key_from_password_256(args.password, args.salt, args.iterations)
    /\ op = "from_password_and_salt" =>
           /\ ret.kind = "Ok"
           /\ ret.m_key = derive_key_from_password_256(args.password, args.salt, 200000)

C27_Witness ==
    /\ op = "derive_key_from_password_256"
    /\ args.password # args.salt
    /\ args.iterations = 0
    /\ Len(ret.bytes) = 32
    /\ ret.bytes # derive_key_from_password_256(args.salt, args.password, 0)

\* C28: encrypt_aes_openssl uses the caller's salt only when it is exactly
\* 8 bytes long; with no salt or a salt of another length, the empty one
\* included, it returns no error and encrypts under a salt drawn at random,
\* so that bytes 8..16 of the result are the supplied salt exactly when its
\* length is 8 (the random salt is never one of the salts supplied here)
C28_SaltOnlyOfEightBytes ==
    op = "encrypt_aes_openssl" =>
        LET used == SubSeq(blob, 9, 16)
            ki == generate_aes_key_and_iv(32, 16, 1, Some(used), key)
        IN  /\ encRes = Ok(blob, "cbc")
            /\ blob = OPENSSL_SALT_PREFIX \o used \o CbcEncryptVec(ki.key, ki.iv, plain)
            /\ IF args.maybe_salt.some /\ Len(args.maybe_salt.val) = 8
               THEN used = args.maybe_salt.val
               ELSE used \in RandomSalts
            /\ (args.maybe_salt.some /\ used = args.maybe_salt.val)
                   <=> (args.maybe_salt.some /\ Len(args.maybe_salt.val) = 8)

C28_Witness ==
    /\ op = "encrypt_aes_openssl"
    /\ args.maybe_salt = Some(<<>>)
    /\ plain = SamplePlain
    /\ SubSeq(blob, 9, 16) = <<255, 255, 255, 255, 255, 255, 255, 255>>
    /\ encRes.kind = "Ok"

C28_WitnessShortSalt ==
    /\ op = "encrypt_aes_openssl"
    /\ args.maybe_salt = Some(<<9, 9, 9>>)
    /\ SubSeq(blob, 9, 16) = SampleSalt

\* C29: evpkdf ends after exactly ceil(len(output) / 16) rounds of its loop
\* (three for a 32 byte key and a 16 byte IV, none for an empty output), a
\* count of 0 gives what a count of 1 gives, and generate_aes_key_and_iv
\* returns a key of exactly key_length bytes and an IV of exactly iv_length
C29_EvpkdfRounds ==
    /\ op = "evpkdf" =>
           /\ Len(ret.derived_key) = BlockSize * CeilDiv(args.output_length, BlockSize)
           /\ Len(ret.bytes) = args.output_length
           /\ ret.bytes = SubSeq(ret.derived_key, 1, args.output_length)
           /\ args.iterations = 0 =>
                  ret.bytes = evpkdf(args.password, args.salt, 1, args.output_length)
    /\ op = "generate_aes_key_and_iv" =>
           /\ Len(ret.key) = args.key_length
           /\ Len(ret.iv) = args.iv_length
           /\ args.iterations = 0 =>
                  ret = generate_aes_key_and_iv(args.key_length, args.iv_length, 1,
                                                args.maybe_salt, args.password)

C29_Witness ==
    /\ op = "evpkdf"
    /\ args.output_length = 48
    /\ args.iterations = 0
    /\ Len(ret.derived_key) = 3 * BlockSize
    /\ ret.bytes # evpkdf(args.password, args.salt, 2, 48)

C29_WitnessEmptyOutput ==
    /\ op = "evpkdf"
    /\ args.output_length = 0
    /\ ret.derived_key = <<>>

C29_WitnessLengths ==
    /\ op = "generate_aes_key_and_iv"
    /\ args.key_length = 1
    /\ Len(ret.key) = 1
    /\ Len(ret.iv) = 16

============================================================================
